---- MODULE Spec2Model ----
(***************************************************************************)
(* PreTrainedModelWrapper (trl/models/modeling_base.py): a wrapper around  *)
(* a transformers.PreTrainedModel.  The model covers the class attributes, *)
(* the constructor, the class methods from_pretrained and _split_kwargs    *)
(* and the three instance methods that call the wrapped model.  The calls  *)
(* an operation makes (the parent class loader, the constructor, the       *)
(* wrapped model's methods) are recorded, in order, in its trace.          *)
(***************************************************************************)
EXTENDS Integers, Sequences, FiniteSets, TLC

\* ------------------------------------------------------------------ bounds
\* Longest positional argument list (*model_args, *args) a caller passes.
MaxArgs == 2
\* Most wrapper objects alive at once.
MaxWrappers == 2

\* ------------------------------------------------------ the input universe
\* The code never inspects a positional argument or a keyword value, it only
\* passes them on: the i-th positional argument is the token ToString(i), and
\* the value given for a key is a token of that key, so that a call which
\* drops, reorders or mixes them up is told apart from one which does not.
\* A caller passes no positional argument or MaxArgs of them.
Keys == {"summary_dropout_prob", "prefix"}
KwValue(k) == IF k = "prefix" THEN "x." ELSE "0.1"
\* A keyword dictionary: a function from the keys it holds to their values.
Dicts == {[k \in S |-> KwValue(k)] : S \in SUBSET Keys}
ArgLists == {[i \in 1..n |-> ToString(i)] : n \in {0, MaxArgs}}
EmptyDict == [k \in {} |-> ""]

\* Python values.  `type` is the value's class, `ref` its identity (or its
\* text, for a str or an int), `items` the entries of a container.
PyValue(type, ref, items) == [type |-> type, ref |-> ref, items |-> items]
PyNone == PyValue("NoneType", "None", {})
PyStr(s) == PyValue("str", s, {})
PyInt(s) == PyValue("int", s, {})
PyModel(m) == PyValue("PreTrainedModel", m, {})

\* The transformers.PreTrainedModel instances that exist, and the named
\* parameters each one holds.
ModelIds == {"m1", "m2"}
Parameters(m) == IF m = "m1" THEN {"wte", "lm_head"} ELSE {"wte"}
\* Model identifiers (hub names or paths).
Identifiers == {"gpt2"}
\* What a caller may pass as pretrained_model_name_or_path.
NameOrPathValues ==
    {PyStr(s) : s \in Identifiers} \cup {PyModel(m) : m \in ModelIds} \cup {PyInt("42")}

\* The classes: the wrapper itself and one subclass that sets its parent
\* class and overrides the allow-list.
Classes == {"PreTrainedModelWrapper", "Sub"}
\* Errors the external calls may raise.
LoaderErrors == {"OSError", "ValueError"}
MethodErrors == {"OSError"}
\* Sub-modules client code attaches to a wrapper (a value head).
HeadNames == {"v_head"}

VARIABLES
    transformers_parent_class,  \* class attribute, per class
    supported_args,             \* class attribute, per class: a tuple of names
    wrappers,                   \* the wrapper objects, in order of creation
    call,                       \* the last operation and its arguments
    trace,                      \* the calls that operation made, in order
    result,                     \* what it returned or raised
    caller_kwargs               \* the caller's kwargs dictionary after it

vars == <<transformers_parent_class, supported_args, wrappers, call, trace,
          result, caller_kwargs>>

\* ------------------------------------------------------- Python primitives
Return(v) == [kind |-> "return", error |-> "None", value |-> v]
Raise(e) == [kind |-> "raise", error |-> e, value |-> PyNone]

isinstance(x, type) == x.type = type

\* `key in t` for a tuple t.
TupleContains(t, key) == \E i \in DOMAIN t : t[i] = key

\* d[key] = value
DictSet(d, key, value) ==
    [k \in DOMAIN d \cup {key} |-> IF k = key THEN value ELSE d[k]]

\* A call an operation makes, as the trace records it.
Event(target, method, args, kwargs, outcome) ==
    [target |-> target, method |-> method, args |-> args, kwargs |-> kwargs,
     outcome |-> outcome]

\* --------------------------------------------------------- class attributes
ClassParent(cls) ==
    IF cls = "PreTrainedModelWrapper" THEN "None" ELSE "AutoModelForCausalLM"

ClassSupportedArgs(cls) ==
    IF cls = "PreTrainedModelWrapper" THEN <<"summary_dropout_prob">> ELSE <<"prefix">>

\* ------------------------------------------------------------ _split_kwargs
\* The pair of dictionaries _split_kwargs returns, as one Python value.
PairValue(supported_kwargs, unsupported_kwargs) ==
    PyValue("tuple", "",
        {<<"supported", k, supported_kwargs[k]>> : k \in DOMAIN supported_kwargs}
        \cup {<<"unsupported", k, unsupported_kwargs[k]>> : k \in DOMAIN unsupported_kwargs})

RECURSIVE split_loop(_, _, _, _, _)
split_loop(cls, kwargs, todo, supported_kwargs, unsupported_kwargs) ==
    IF todo = {}
    THEN [supported |-> supported_kwargs, unsupported |-> unsupported_kwargs,
          kwargs |-> kwargs]
    ELSE LET key == CHOOSE k \in todo : TRUE
             value == kwargs[key]
         IN  IF TupleContains(supported_args[cls], key)
             THEN split_loop(cls, kwargs, todo \ {key},
                             DictSet(supported_kwargs, key, value), unsupported_kwargs)
             ELSE split_loop(cls, kwargs, todo \ {key},
                             supported_kwargs, DictSet(unsupported_kwargs, key, value))

\* Variant: splits by the base class's allow-list, whatever the class.
_split_kwargs_base(cls, kwargs) ==
    split_loop("PreTrainedModelWrapper", kwargs, DOMAIN kwargs, EmptyDict, EmptyDict)

\* Variant: pops the supported keys out of the caller's dictionary.
_split_kwargs_pop(cls, kwargs) ==
    LET r == split_loop(cls, kwargs, DOMAIN kwargs, EmptyDict, EmptyDict)
    IN  [r EXCEPT !.kwargs = r.unsupported]

_split_kwargs(cls, kwargs) ==
    split_loop(cls, kwargs, DOMAIN kwargs, EmptyDict, EmptyDict)

\* ----------------------------------------------------------------- __init__
\* Variant: stores a deep copy of the model it is given.
__init__copy(cls, pretrained_model, kwargs) ==
    [pretrained_model |-> IF isinstance(pretrained_model, "NoneType") THEN pretrained_model
                          ELSE PyValue(pretrained_model.type, "copy", {}),
     submodules |-> {}]

\* The new object's attributes: the model it holds and the sub-modules
\* registered on it besides.  Its class is carried by the reference to it
\* (WrapperValue); **kwargs is accepted and ignored.
__init__(cls, pretrained_model, kwargs) ==
    [pretrained_model |-> pretrained_model, submodules |-> {}]

WrapperValue(cls, i) == PyValue(cls, ToString(i), {})

\* cls(pretrained_model, **trl_model_args), then `return model`.
instantiate(cls, pretrained_model, trl_model_args, sofar) ==
    LET model == WrapperValue(cls, Len(wrappers) + 1)
        made == Event(cls, "__init__", <<pretrained_model.ref>>, trl_model_args,
                      Return(model))
    IN  [trace |-> Append(sofar, made), result |-> Return(model),
         heap |-> Append(wrappers, __init__(cls, pretrained_model, trl_model_args))]

\* ---------------------------------------------------------- from_pretrained
\* cls.transformers_parent_class.from_pretrained(...): the loader returns the
\* model `oracle` names or raises the error `oracle` names.
loader_call(parent, args, kwargs, oracle) ==
    Event(parent, "from_pretrained", args, kwargs,
          IF oracle \in ModelIds THEN Return(PyModel(oracle)) ELSE Raise(oracle))

\* Variant: no type check, whatever is not a string is wrapped as it is.
from_pretrained_unchecked(cls, pretrained_model_name_or_path, model_args, kwargs, oracle) ==
    LET split == _split_kwargs(cls, kwargs)
    IN  IF isinstance(pretrained_model_name_or_path, "str")
        THEN IF transformers_parent_class[cls] = "None"
             THEN [trace |-> <<>>, result |-> Raise("AttributeError"), heap |-> wrappers]
             ELSE LET loaded == loader_call(transformers_parent_class[cls],
                                    <<pretrained_model_name_or_path.ref>> \o model_args,
                                    split.unsupported, oracle)
                  IN  IF loaded.outcome.kind = "raise"
                      THEN [trace |-> <<loaded>>, result |-> loaded.outcome,
                            heap |-> wrappers]
                      ELSE instantiate(cls, loaded.outcome.value, split.supported,
                                       <<loaded>>)
        ELSE instantiate(cls, pretrained_model_name_or_path, split.supported, <<>>)

\* Variant: the loader and the constructor both get every keyword argument.
from_pretrained_allkw(cls, pretrained_model_name_or_path, model_args, kwargs, oracle) ==
    IF isinstance(pretrained_model_name_or_path, "str")
    THEN IF transformers_parent_class[cls] = "None"
         THEN [trace |-> <<>>, result |-> Raise("AttributeError"), heap |-> wrappers]
         ELSE LET loaded == loader_call(transformers_parent_class[cls],
                                <<pretrained_model_name_or_path.ref>> \o model_args,
                                kwargs, oracle)
              IN  IF loaded.outcome.kind = "raise"
                  THEN [trace |-> <<loaded>>, result |-> loaded.outcome, heap |-> wrappers]
                  ELSE instantiate(cls, loaded.outcome.value, kwargs, <<loaded>>)
    ELSE IF isinstance(pretrained_model_name_or_path, "PreTrainedModel")
    THEN instantiate(cls, pretrained_model_name_or_path, kwargs, <<>>)
    ELSE [trace |-> <<>>, result |-> Raise("ValueError"), heap |-> wrappers]

\* Variant: a loader error is swallowed and an empty wrapper is returned.
from_pretrained_swallow(cls, pretrained_model_name_or_path, model_args, kwargs, oracle) ==
    LET split == _split_kwargs(cls, kwargs)
    IN  IF isinstance(pretrained_model_name_or_path, "str")
        THEN IF transformers_parent_class[cls] = "None"
             THEN [trace |-> <<>>, result |-> Raise("AttributeError"), heap |-> wrappers]
             ELSE LET loaded == loader_call(transformers_parent_class[cls],
                                    <<pretrained_model_name_or_path.ref>> \o model_args,
                                    split.unsupported, oracle)
                  IN  IF loaded.outcome.kind = "raise"
                      THEN instantiate(cls, PyNone, split.supported, <<loaded>>)
                      ELSE instantiate(cls, loaded.outcome.value, split.supported,
                                       <<loaded>>)
        ELSE IF isinstance(pretrained_model_name_or_path, "PreTrainedModel")
        THEN instantiate(cls, pretrained_model_name_or_path, split.supported, <<>>)
        ELSE [trace |-> <<>>, result |-> Raise("ValueError"), heap |-> wrappers]

\* kwargs, collected from **kwargs, is always a dictionary: the branch for
\* `kwargs is None` is never taken.  `oracle` is what the loader will do.
from_pretrained(cls, pretrained_model_name_or_path, model_args, kwargs, oracle) ==
    LET split == _split_kwargs(cls, kwargs)
        trl_model_args == split.supported
        pretrained_kwargs == split.unsupported
    IN  IF isinstance(pretrained_model_name_or_path, "str")
        THEN IF transformers_parent_class[cls] = "None"
             THEN [trace |-> <<>>, result |-> Raise("AttributeError"), heap |-> wrappers]
             ELSE LET loaded == loader_call(transformers_parent_class[cls],
                                    <<pretrained_model_name_or_path.ref>> \o model_args,
                                    pretrained_kwargs, oracle)
                  IN  IF loaded.outcome.kind = "raise"
                      THEN [trace |-> <<loaded>>, result |-> loaded.outcome,
                            heap |-> wrappers]
                      ELSE instantiate(cls, loaded.outcome.value, trl_model_args,
                                       <<loaded>>)
        ELSE IF isinstance(pretrained_model_name_or_path, "PreTrainedModel")
        THEN instantiate(cls, pretrained_model_name_or_path, trl_model_args, <<>>)
        ELSE [trace |-> <<>>, result |-> Raise("ValueError"), heap |-> wrappers]

\* ------------------------------------------- the wrapped model's methods
\* What the wrapped model's own method returns: state_dict the entries
\* (prefix, dotted path of the parameter, owner of the tensor) of the model's
\* parameters, push_to_hub the commit it made, save_pretrained nothing.
model_return(m, method, args, kwargs) ==
    IF method = "state_dict"
    THEN LET prefix == IF "prefix" \in DOMAIN kwargs THEN kwargs["prefix"] ELSE ""
         IN  PyValue("dict", "", {<<prefix, <<p>>, m>> : p \in Parameters(m)})
    ELSE IF method = "push_to_hub"
    THEN PyValue("CommitInfo", m, {})
    ELSE PyNone

\* obj.method(*args, **kwargs): the attribute lookup fails on None; otherwise
\* the method runs, and returns or raises as `oracle` says.
call_method(obj, method, args, kwargs, oracle) ==
    IF isinstance(obj, "NoneType")
    THEN [trace |-> <<>>, result |-> Raise("AttributeError")]
    ELSE LET outcome == IF oracle = "ok"
                        THEN Return(model_return(obj.ref, method, args, kwargs))
                        ELSE Raise(oracle)
         IN  [trace |-> <<Event(obj.ref, method, args, kwargs, outcome)>>,
              result |-> outcome]

\* Variant: the call is made but its result is not returned.
push_to_hub_noreturn(self, args, kwargs, oracle) ==
    LET r == call_method(self.pretrained_model, "push_to_hub", args, kwargs, oracle)
    IN  [trace |-> r.trace,
         result |-> IF r.result.kind = "raise" THEN r.result ELSE Return(PyNone),
         self |-> self]

push_to_hub(self, args, kwargs, oracle) ==
    LET r == call_method(self.pretrained_model, "push_to_hub", args, kwargs, oracle)
    IN  [trace |-> r.trace, result |-> r.result, self |-> self]

\* Variant: saves by itself, without calling the wrapped model.
save_pretrained_local(self, args, kwargs, oracle) ==
    [trace |-> <<>>, result |-> Return(PyNone), self |-> self]

save_pretrained(self, args, kwargs, oracle) ==
    LET r == call_method(self.pretrained_model, "save_pretrained", args, kwargs, oracle)
    IN  [trace |-> r.trace, result |-> r.result, self |-> self]

\* Variant: the state_dict the wrapper inherits from nn.Module, which walks
\* every sub-module and prefixes each entry with the sub-module's name.
state_dict_module(self, args, kwargs, oracle) ==
    LET prefix == IF "prefix" \in DOMAIN kwargs THEN kwargs["prefix"] ELSE ""
        m == self.pretrained_model
        own == IF isinstance(m, "NoneType") THEN {}
               ELSE {<<prefix, <<"pretrained_model", p>>, m.ref>> : p \in Parameters(m.ref)}
        heads == {<<prefix, <<h, "weight">>, h>> : h \in self.submodules}
    IN  [trace |-> <<>>, result |-> Return(PyValue("dict", "", own \cup heads)),
         self |-> self]

state_dict(self, args, kwargs, oracle) ==
    LET r == call_method(self.pretrained_model, "state_dict", args, kwargs, oracle)
    IN  [trace |-> r.trace, result |-> r.result, self |-> self]

\* setattr(self, name, module) on an nn.Module registers a sub-module, or
\* replaces the one registered under that name.
add_module(self, name) ==
    [self EXCEPT !.submodules = @ \cup {name}]

\* ------------------------------------------------------------------ actions
Invocation(op, cls, self, x, args, kwargs) ==
    [op |-> op, cls |-> cls, self |-> self, x |-> x, args |-> args, kwargs |-> kwargs]

Init ==
    /\ transformers_parent_class = [c \in Classes |-> ClassParent(c)]
    /\ supported_args = [c \in Classes |-> ClassSupportedArgs(c)]
    /\ wrappers = <<>>
    /\ call = Invocation("None", "None", 0, PyNone, <<>>, EmptyDict)
    /\ trace = <<>>
    /\ result = Return(PyNone)
    /\ caller_kwargs = EmptyDict

SplitKwargs ==
    \E cls \in Classes, kwargs \in Dicts :
        LET r == _split_kwargs(cls, kwargs)
        IN  /\ call' = Invocation("_split_kwargs", cls, 0, PyNone, <<>>, kwargs)
            /\ trace' = <<>>
            /\ result' = Return(PairValue(r.supported, r.unsupported))
            /\ caller_kwargs' = r.kwargs
            /\ UNCHANGED <<transformers_parent_class, supported_args, wrappers>>

\* What the parent class loader may do when from_pretrained reaches it; the
\* other calls never consult it.
LoaderOracles(cls, x) ==
    IF isinstance(x, "str") /\ transformers_parent_class[cls] # "None"
    THEN ModelIds \cup LoaderErrors
    ELSE {"None"}

FromPretrained ==
    \E cls \in Classes, x \in NameOrPathValues, model_args \in ArgLists,
       kwargs \in Dicts :
      \E oracle \in LoaderOracles(cls, x) :
        LET r == from_pretrained(cls, x, model_args, kwargs, oracle)
        IN  /\ Len(r.heap) <= MaxWrappers
            /\ call' = Invocation("from_pretrained", cls, 0, x, model_args, kwargs)
            /\ trace' = r.trace
            /\ result' = r.result
            /\ wrappers' = r.heap
            /\ caller_kwargs' = kwargs
            /\ UNCHANGED <<transformers_parent_class, supported_args>>

\* cls(pretrained_model, **kwargs) called directly.
Construct ==
    \E cls \in Classes, pretrained_model \in {PyNone} \cup {PyModel(m) : m \in ModelIds},
       kwargs \in Dicts :
        /\ Len(wrappers) < MaxWrappers
        /\ call' = Invocation("__init__", cls, 0, pretrained_model, <<>>, kwargs)
        /\ trace' = <<>>
        /\ result' = Return(WrapperValue(cls, Len(wrappers) + 1))
        /\ wrappers' = Append(wrappers, __init__(cls, pretrained_model, kwargs))
        /\ caller_kwargs' = kwargs
        /\ UNCHANGED <<transformers_parent_class, supported_args>>

\* Client code attaches a head to a wrapper.  Attaching under a name that is
\* already registered replaces the entry: the registry keeps the same names.
AttachSubmodule ==
    \E w \in DOMAIN wrappers, name \in HeadNames :
        /\ call' = Invocation("add_module", "None", w, PyStr(name), <<>>, EmptyDict)
        /\ trace' = <<>>
        /\ result' = Return(PyNone)
        /\ wrappers' = [wrappers EXCEPT ![w] = add_module(@, name)]
        /\ caller_kwargs' = EmptyDict
        /\ UNCHANGED <<transformers_parent_class, supported_args>>

MethodOracles == {"ok"} \cup MethodErrors

PushToHub ==
    \E w \in DOMAIN wrappers, args \in ArgLists, kwargs \in Dicts,
       oracle \in MethodOracles :
        LET r == push_to_hub(wrappers[w], args, kwargs, oracle)
        IN  /\ call' = Invocation("push_to_hub", "None", w, PyNone, args, kwargs)
            /\ trace' = r.trace
            /\ result' = r.result
            /\ wrappers' = [wrappers EXCEPT ![w] = r.self]
            /\ caller_kwargs' = kwargs
            /\ UNCHANGED <<transformers_parent_class, supported_args>>

SavePretrained ==
    \E w \in DOMAIN wrappers, args \in ArgLists, kwargs \in Dicts,
       oracle \in MethodOracles :
        LET r == save_pretrained(wrappers[w], args, kwargs, oracle)
        IN  /\ call' = Invocation("save_pretrained", "None", w, PyNone, args, kwargs)
            /\ trace' = r.trace
            /\ result' = r.result
            /\ wrappers' = [wrappers EXCEPT ![w] = r.self]
            /\ caller_kwargs' = kwargs
            /\ UNCHANGED <<transformers_parent_class, supported_args>>

StateDict ==
    \E w \in DOMAIN wrappers, args \in ArgLists, kwargs \in Dicts,
       oracle \in MethodOracles :
        LET r == state_dict(wrappers[w], args, kwargs, oracle)
        IN  /\ call' = Invocation("state_dict", "None", w, PyNone, args, kwargs)
            /\ trace' = r.trace
            /\ result' = r.result
            /\ wrappers' = [wrappers EXCEPT ![w] = r.self]
            /\ caller_kwargs' = kwargs
            /\ UNCHANGED <<transformers_parent_class, supported_args>>

Next ==
    \/ SplitKwargs
    \/ FromPretrained
    \/ Construct
    \/ AttachSubmodule
    \/ PushToHub
    \/ SavePretrained
    \/ StateDict

Spec == Init /\ [][Next]_vars

\* ------------------------------------------------------------------ helpers
Restrict(d, S) == [k \in DOMAIN d \cap S |-> d[k]]
SupportedKeys(cls) == {k \in Keys : TupleContains(supported_args[cls], k)}
IsValueError(r) == r.kind = "raise" /\ r.error = "ValueError"
HoldsModel(w) == isinstance(wrappers[w].pretrained_model, "PreTrainedModel")
Forwarders == {"push_to_hub", "save_pretrained", "state_dict"}
Loads(tr) == {i \in DOMAIN tr : tr[i].method = "from_pretrained"}
Inits(tr) == {i \in DOMAIN tr : tr[i].method = "__init__"}

\* ----------------------------------------------------------------------- C1
\* C1: _split_kwargs(kwargs) on class cls returns a pair (supported,
\* unsupported) that partitions kwargs exactly: the key sets are disjoint,
\* their union is the key set of kwargs, every key keeps its value, and a key
\* is in supported iff it is a member of cls.supported_args, the allow-list
\* of the class the method is called on.
C1_SplitIsPartition ==
    call.op = "_split_kwargs" =>
        LET items == result.value.items
            supKeys == {t[2] : t \in {u \in items : u[1] = "supported"}}
            unsKeys == {t[2] : t \in {u \in items : u[1] = "unsupported"}}
        IN  /\ result.kind = "return"
            /\ \A t \in items : t[1] \in {"supported", "unsupported"}
            /\ supKeys \cap unsKeys = {}
            /\ supKeys \cup unsKeys = DOMAIN call.kwargs
            /\ Cardinality(items) = Cardinality(DOMAIN call.kwargs)
            /\ \A t \in items : t[3] = call.kwargs[t[2]]
            /\ \A k \in DOMAIN call.kwargs :
                   k \in supKeys <=> TupleContains(supported_args[call.cls], k)

\* The subclass, whose allow-list differs from the base class's, has split a
\* dictionary holding a key it supports and a key it does not.
C1_Witness ==
    /\ call.op = "_split_kwargs"
    /\ call.cls = "Sub"
    /\ DOMAIN call.kwargs = Keys
    /\ <<"supported", "prefix", "x.">> \in result.value.items
    /\ <<"unsupported", "summary_dropout_prob", "0.1">> \in result.value.items

\* ----------------------------------------------------------------------- C2
\* C2 as stated: from_pretrained raises ValueError if and only if its first
\* argument is neither a string nor a PreTrainedModel, and then the loader is
\* not called and no wrapper is constructed.
C2_ValueErrorIffBadType ==
    call.op = "from_pretrained" =>
        /\ IsValueError(result) <=>
               (~isinstance(call.x, "str") /\ ~isinstance(call.x, "PreTrainedModel"))
        /\ IsValueError(result) => trace = <<>>

C2_Step ==
    call'.op = "from_pretrained" =>
        /\ (~isinstance(call'.x, "str") /\ ~isinstance(call'.x, "PreTrainedModel")) =>
               /\ result' = Raise("ValueError")
               /\ trace' = <<>>
               /\ wrappers' = wrappers
        /\ isinstance(call'.x, "PreTrainedModel") => result'.kind = "return"
        /\ (isinstance(call'.x, "str") /\ IsValueError(result')) =>
               /\ Len(trace') = 1
               /\ trace'[1].method = "from_pretrained"
               /\ trace'[1].target = transformers_parent_class[call'.cls]
               /\ trace'[1].outcome = result'

\* C2, amended: a first argument that is neither a string nor a
\* PreTrainedModel makes from_pretrained raise ValueError, with no loader
\* call and no wrapper constructed, whatever else is passed; a PreTrainedModel
\* never raises; for a string, a ValueError is one the parent class loader
\* raised, passed on unchanged.
C2_BadTypeRaisesValueError == [][C2_Step]_vars

\* A value of another type was passed along with positional and keyword
\* arguments, and ValueError came back.
C2_Witness ==
    /\ call.op = "from_pretrained"
    /\ isinstance(call.x, "int")
    /\ Len(call.args) = MaxArgs
    /\ DOMAIN call.kwargs = Keys
    /\ IsValueError(result)

\* ----------------------------------------------------------------------- C3
\* C3 as stated: with a string identifier (on a class that has a parent
\* class) the loader is called exactly once with the identifier, the
\* positional arguments in order and the caller's keyword arguments.
C3_LoaderGetsAllKwargs ==
    (/\ call.op = "from_pretrained"
     /\ isinstance(call.x, "str")
     /\ transformers_parent_class[call.cls] # "None") =>
        /\ Cardinality(Loads(trace)) = 1
        /\ \A i \in Loads(trace) :
               /\ trace[i].target = transformers_parent_class[call.cls]
               /\ trace[i].args = <<call.x.ref>> \o call.args
               /\ trace[i].kwargs = call.kwargs

\* C3, amended: with a string identifier (on a class that has a parent
\* class) the loader is called exactly once with the identifier, the
\* positional arguments in order, and those of the caller's keyword
\* arguments whose key is not in cls.supported_args.
C3_LoaderGetsUnsupportedKwargs ==
    (/\ call.op = "from_pretrained"
     /\ isinstance(call.x, "str")
     /\ transformers_parent_class[call.cls] # "None") =>
        /\ Cardinality(Loads(trace)) = 1
        /\ \A i \in Loads(trace) :
               /\ trace[i].target = transformers_parent_class[call.cls]
               /\ trace[i].args = <<call.x.ref>> \o call.args
               /\ trace[i].kwargs =
                      Restrict(call.kwargs, DOMAIN call.kwargs \ SupportedKeys(call.cls))

\* The loader was called with two positional arguments after the identifier
\* and with the one keyword argument, of the two passed, that is not
\* allow-listed.
C3_Witness ==
    /\ call.op = "from_pretrained"
    /\ isinstance(call.x, "str")
    /\ Len(call.args) = 2
    /\ DOMAIN call.kwargs = Keys
    /\ Len(trace) >= 1
    /\ trace[1].method = "from_pretrained"
    /\ trace[1].args = <<"gpt2", "1", "2">>
    /\ DOMAIN trace[1].kwargs = {"summary_dropout_prob"}

\* ----------------------------------------------------------------------- C4
C4_Step ==
    (/\ call'.op \in Forwarders
     /\ call'.self \in DOMAIN wrappers
     /\ HoldsModel(call'.self)) =>
        /\ Len(trace') = 1
        /\ trace'[1].target = wrappers[call'.self].pretrained_model.ref
        /\ trace'[1].method = call'.op
        /\ trace'[1].args = call'.args
        /\ trace'[1].kwargs = call'.kwargs
        /\ result' = trace'[1].outcome
        /\ DOMAIN wrappers' = DOMAIN wrappers
        /\ \A w \in DOMAIN wrappers :
               wrappers'[w].pretrained_model = wrappers[w].pretrained_model

\* C4: push_to_hub, save_pretrained and state_dict, called on a wrapper with
\* any arguments, each make exactly one call to the method of the same name
\* on the wrapped pretrained_model with the same arguments, return what it
\* returned or raise what it raised, and leave the wrapper holding the same
\* object.
C4_ForwardsUnchanged == [][C4_Step]_vars

\* push_to_hub was forwarded with two positional and two keyword arguments
\* and returned the wrapped model's commit.
C4_Witness ==
    /\ call.op = "push_to_hub"
    /\ call.self \in DOMAIN wrappers
    /\ HoldsModel(call.self)
    /\ Len(call.args) = 2
    /\ DOMAIN call.kwargs = Keys
    /\ result.kind = "return"
    /\ result.value.type = "CommitInfo"

\* ----------------------------------------------------------------------- C5
\* C5: from_pretrained given a PreTrainedModel instance returns a wrapper of
\* the class whose pretrained_model is that very object, never calls the
\* loader, succeeds also when transformers_parent_class is None, and neither
\* the positional arguments nor the keyword arguments outside the allow-list
\* reach the constructor or change the wrapper.
C5_InstanceIsWrappedAsIs ==
    (call.op = "from_pretrained" /\ isinstance(call.x, "PreTrainedModel")) =>
        /\ result.kind = "return"
        /\ result.value.type = call.cls
        /\ result.value.ref = ToString(Len(wrappers))
        /\ Len(wrappers) >= 1
        /\ wrappers[Len(wrappers)] = [pretrained_model |-> call.x, submodules |-> {}]
        /\ Loads(trace) = {}
        /\ trace = <<Event(call.cls, "__init__", <<call.x.ref>>,
                           Restrict(call.kwargs, SupportedKeys(call.cls)), result)>>

\* The base class, whose parent class is None, has wrapped the instance m2
\* passed with positional arguments and a keyword outside its allow-list.
C5_Witness ==
    /\ call.op = "from_pretrained"
    /\ call.cls = "PreTrainedModelWrapper"
    /\ transformers_parent_class[call.cls] = "None"
    /\ call.x = PyModel("m2")
    /\ Len(call.args) = 2
    /\ "prefix" \in DOMAIN call.kwargs
    /\ result.kind = "return"
    /\ wrappers[Len(wrappers)].pretrained_model.ref = "m2"

\* ----------------------------------------------------------------------- C6
Operations ==
    {"__init__", "_split_kwargs", "from_pretrained", "push_to_hub", "save_pretrained",
     "state_dict"}

\* The traces operation op can leave, run on wrapper self or on a class,
\* over all its inputs.
TracesOf(op, self) ==
    CASE op = "push_to_hub" ->
             {push_to_hub(self, a, k, o).trace :
                  a \in ArgLists, k \in Dicts, o \in MethodOracles}
      [] op = "save_pretrained" ->
             {save_pretrained(self, a, k, o).trace :
                  a \in ArgLists, k \in Dicts, o \in MethodOracles}
      [] op = "state_dict" ->
             {state_dict(self, a, k, o).trace :
                  a \in ArgLists, k \in Dicts, o \in MethodOracles}
      [] op = "from_pretrained" ->
             UNION {{from_pretrained(c, x, a, k, o).trace :
                         a \in ArgLists, k \in Dicts, o \in LoaderOracles(c, x)} :
                    c \in Classes, x \in NameOrPathValues}
      [] OTHER -> {<<>>}

\* Some run of op calls a method of the model that wrapper self holds.
Delegates(op, self) ==
    \E tr \in TracesOf(op, self) :
        \E i \in DOMAIN tr : tr[i].target = self.pretrained_model.ref

DelegatingOps ==
    {op \in Operations : \E w \in DOMAIN wrappers : HoldsModel(w) /\ Delegates(op, wrappers[w])}

\* C6 as stated: exactly four operations of the class forward their call to
\* the pretrained_model the wrapper holds.
C6_FourDelegate ==
    (\E w \in DOMAIN wrappers : HoldsModel(w)) => Cardinality(DelegatingOps) = 4

\* C6, amended: exactly three operations of the class forward their call to
\* the pretrained_model the wrapper holds: push_to_hub, save_pretrained and
\* state_dict.
C6_ThreeDelegate ==
    (\E w \in DOMAIN wrappers : HoldsModel(w)) => DelegatingOps = Forwarders

\* A wrapper that from_pretrained built around a loaded model exists.
C6_Witness ==
    /\ call.op = "from_pretrained"
    /\ isinstance(call.x, "str")
    /\ result.kind = "return"
    /\ \E w \in DOMAIN wrappers : HoldsModel(w)

\* ----------------------------------------------------------------------- C7
\* C7: state_dict on a wrapper, heads attached or not, returns exactly what
\* pretrained_model.state_dict returns for the same arguments: the wrapped
\* model's own parameters under the prefix the caller gave, with no entry of
\* a head and no wrapper-level "pretrained_model" prefix.
C7_StateDictIsTheWrappedModels ==
    (/\ call.op = "state_dict"
     /\ call.self \in DOMAIN wrappers
     /\ HoldsModel(call.self)
     /\ result.kind = "return") =>
        LET self == wrappers[call.self]
            m == self.pretrained_model.ref
            prefix == IF "prefix" \in DOMAIN call.kwargs THEN call.kwargs["prefix"] ELSE ""
        IN  /\ Len(trace) = 1
            /\ trace[1].args = call.args
            /\ trace[1].kwargs = call.kwargs
            /\ result.value = trace[1].outcome.value
            /\ result.value.type = "dict"
            /\ result.value.items = {<<prefix, <<p>>, m>> : p \in Parameters(m)}
            /\ \A e \in result.value.items :
                   /\ e[3] \notin self.submodules
                   /\ e[2][1] \notin self.submodules \cup {"pretrained_model"}

\* A wrapper around m1 with a value head attached returned m1's two entries
\* under the caller's prefix.
C7_Witness ==
    /\ call.op = "state_dict"
    /\ call.self \in DOMAIN wrappers
    /\ wrappers[call.self].pretrained_model = PyModel("m1")
    /\ wrappers[call.self].submodules = {"v_head"}
    /\ "prefix" \in DOMAIN call.kwargs
    /\ result.kind = "return"
    /\ result.value.items = {<<"x.", <<"wte">>, "m1">>, <<"x.", <<"lm_head">>, "m1">>}

\* ----------------------------------------------------------------------- C8
C8_Step ==
    /\ supported_args' = supported_args
    /\ transformers_parent_class' = transformers_parent_class
    /\ call'.op = "_split_kwargs" => caller_kwargs' = call'.kwargs
    /\ \A w \in DOMAIN wrappers :
           /\ w \in DOMAIN wrappers'
           /\ wrappers'[w].pretrained_model = wrappers[w].pretrained_model

\* C8: no operation writes shared state: every step leaves the class-level
\* supported_args and transformers_parent_class as they were, _split_kwargs
\* leaves the caller's kwargs dictionary with the keys and values it had, and
\* every wrapper keeps the pretrained_model it was constructed with.
C8_NoSharedStateWritten == [][C8_Step]_vars

\* Two wrappers exist, the first holding m1 (with a head attached) and the
\* second m2, after calls on both, and _split_kwargs has just run on a
\* dictionary with an allow-listed key.
C8_Witness ==
    /\ call.op = "_split_kwargs"
    /\ DOMAIN call.kwargs = Keys
    /\ caller_kwargs = call.kwargs
    /\ Len(wrappers) = 2
    /\ wrappers[1].pretrained_model = PyModel("m1")
    /\ wrappers[1].submodules = {"v_head"}
    /\ wrappers[2].pretrained_model = PyModel("m2")
    /\ supported_args["PreTrainedModelWrapper"] = <<"summary_dropout_prob">>
    /\ transformers_parent_class["Sub"] = "AutoModelForCausalLM"

\* ----------------------------------------------------------------------- C9
C9_Step ==
    (call'.op = "from_pretrained" /\ isinstance(call'.x, "str")) =>
        /\ Cardinality(Inits(trace')) <= 1
        /\ \A i \in Inits(trace') :
               \E j \in Loads(trace') :
                   /\ j < i
                   /\ trace'[j].outcome.kind = "return"
                   /\ trace'[i].args = <<trace'[j].outcome.value.ref>>
        /\ IF transformers_parent_class[call'.cls] = "None"
           THEN /\ result' = Raise("AttributeError")
                /\ trace' = <<>>
                /\ wrappers' = wrappers
           ELSE /\ Loads(trace') = {1}
                /\ IF trace'[1].outcome.kind = "raise"
                   THEN /\ result' = trace'[1].outcome
                        /\ Inits(trace') = {}
                        /\ wrappers' = wrappers
                   ELSE /\ Inits(trace') = {2}
                        /\ result'.kind = "return"
                        /\ wrappers' =
                               Append(wrappers,
                                      [pretrained_model |-> trace'[1].outcome.value,
                                       submodules |-> {}])

\* C9: from_pretrained with a string identifier loads before it constructs:
\* the constructor is called at most once, only after the loader returned,
\* with the loader's return value as pretrained_model; if the loader raises,
\* or the class has no parent class, the error propagates and no wrapper is
\* constructed.
C9_LoadPrecedesConstruction == [][C9_Step]_vars

\* The loader raised and its error came back, with no wrapper made.
C9_Witness ==
    /\ call.op = "from_pretrained"
    /\ isinstance(call.x, "str")
    /\ Len(trace) = 1
    /\ trace[1].outcome.kind = "raise"
    /\ result = Raise("OSError")
    /\ wrappers = <<>>
====
